---- MODULE Spec2Model ----
(***************************************************************************)
(* PhysicsScene (Source/Engine/Physics/PhysicsScene.cpp): the deferred     *)
(* mutation queues, FlushRequests, and the Simulate / CollectResults       *)
(* protocol, with one owning ("main") thread and two worker threads.       *)
(***************************************************************************)
EXTENDS Integers, Sequences, FiniteSets, TLC

\* ---------------------------------------------------------------- bounds
\* Longest queue of removed colliders / joints the callers build up.
MaxQueue == 2

\* ------------------------------------------------------ program constants
\* settings.MaxDeltaTime, in the model's integer time unit.
MaxDeltaTime == 3
\* The stepper's minimal simulatable delta (PhysicsStepper, not in src/).
MinEpsilon == 2
\* settings.DefaultGravity (its magnitude), settings.DisableCCD and
\* settings.BounceThresholdVelocity.
DefaultGravity == 981
DisableCCD == FALSE
BounceThresholdVelocity == 200
\* Delta times the caller passes to Simulate: negative, zero, below the
\* epsilon, ordinary, exactly the maximum, above the maximum.
DeltaTimes == {-1, 0, 1, 2, 3, 5}
\* A frame's delta time, above the maximum.
FrameDeltaTimes == {5}

\* ------------------------------------------------------------ the objects
\* a1 is a PxRigidDynamic, a2 a static actor.
RigidDynamics == {"a1"}
Actors == RigidDynamics \cup {"a2"}
Colliders == {"c1", "c2"}
Joints == {"j1"}
Materials == {"m1"}
Objects == {"o1"}

MainThread == "main"
Workers == {"w1", "w2"}
Threads == {MainThread} \cup Workers
NoThread == "none"

NoOp == [kind |-> "none", arg |-> "none", putToSleep |-> FALSE]
EmptyQueues == [mNewActors |-> <<>>, mActions |-> <<>>, mDeadActors |-> <<>>,
                mDeadColliders |-> <<>>, mDeadJoints |-> <<>>,
                mDeadMaterials |-> <<>>, mDeadObjects |-> <<>>]
\* v1 has two wheels, v2 one (getNbWheels, _wheelsData.Count()).
Vehicles == {"v1", "v2"}
NbWheels(v) == IF v = "v1" THEN 2 ELSE 1
\* mWheelVehicles as the vehicles registered themselves (outside this file).
VehicleLists == {<<>>, <<"v2">>, <<"v1", "v2">>}
NoCall == [kind |-> "none"]
NoInput == [fed |-> "none", accel |-> 0, brake |-> 0,
            digitalAccel |-> FALSE, digitalBrake |-> FALSE]
NoEntry == [world |-> {}, dt |-> 0, arg |-> 0, active |-> FALSE]

VARIABLES
    \* the backend world (PxScene) and its objects
    world,              \* actors in the live world
    userData,           \* actors whose userData points to an owner
    asleep,             \* actors put to sleep
    releasedActors,     \* actors on which release() ran
    materialUserData,   \* materials whose userData points to an owner
    releasedMaterials,
    releasedObjects,
    stepInFlight,       \* a step was dispatched by advance and not yet waited
    \* the scene's fields
    mNewActors, mActions, mDeadActors, mDeadColliders, mDeadJoints,
    mDeadMaterials, mDeadObjects,
    mFlushLocker,       \* the thread holding the lock, or NoThread
    mIsDuringSimulation,
    mLastDeltaTime,
    mStepper,           \* TRUE once allocated
    mScratchMemory,     \* TRUE once allocated
    \* the threads
    pc,                 \* each thread's position
    op,                 \* the call each thread is in
    simDt,              \* Simulate's dt (the main thread's local)
    inSimulate,         \* FlushRequests was entered from Simulate
    assertFailed,       \* ASSERT(actor) of CollectResults failed
    \* history of the calls, kept to state the properties
    addDone,            \* actors on which AddActor returned
    addedFirst,         \* actors whose RemoveActor was called after AddActor returned
    submitted,          \* per queue, the items in lock-acquisition order since the last flush
    snapshot,           \* the queues when the running flush took the lock
    flushLog,           \* backend / collector calls of the running flush, in order
    flushCount,         \* flushes made by the running Simulate
    entry,              \* world, mLastDeltaTime and dt when the running Simulate was entered
    skipped,            \* advance returned false in the running Simulate
    waited,             \* the running CollectResults called wait
    reported,           \* actors the running CollectResults reported to their owner
    \* the Event Collector and the vehicles
    mEventsCallback,    \* events held: "new" of the step being collected, "old" of a collected one
    collectLog,         \* phases of the running CollectResults, in order
    mWheelVehicles,     \* the registered vehicles, in order
    hierarchyActive,    \* vehicles for which IsActiveInHierarchy() is true
    gear,               \* each vehicle's current gear
    rawInput,           \* each vehicle's input last fed to the smoothing
    wheelState,         \* each vehicle's wheel State records: "none", "air", "ground"
    colliderPose,       \* each vehicle's wheel collider transforms follow this State
    wheelCollider,      \* vehicles whose wheels have a Collider
    mWheelQueryResults, mWheelHitResults, mWheelVehiclesResultsPerWheel,   \* Count()
    mWheelVehiclesResultsPerVehicle,    \* the records, in order
    mWheelVehiclesCache,                \* the drives passed to the vehicle update
    mWheelRaycastBatchQuery,            \* the wheel count it was created for, 0 when null
    mWheelTireFrictions,                \* TRUE once allocated
    rebuilt,            \* the running CollectResults created the batch query
    highWater,          \* largest total wheel count of the frames before the running one
    \* the backend scene's settings
    mScene,             \* TRUE when the backend world was created
    sceneGravity, sceneCCD, sceneBounce,
    got,                \* what the last getter returned
    \* a function of this file applied to arguments
    fnCall, fnResult

sceneVars == <<world, userData, asleep, releasedActors, materialUserData,
               releasedMaterials, releasedObjects, stepInFlight>>
queueVars == <<mNewActors, mActions, mDeadActors, mDeadColliders, mDeadJoints,
               mDeadMaterials, mDeadObjects>>
fieldVars == <<mIsDuringSimulation, mLastDeltaTime, mStepper, mScratchMemory>>
threadVars == <<pc, op, simDt, inSimulate, assertFailed>>
callVars == <<addDone, addedFirst>>
flushGhost == <<snapshot, flushLog, flushCount>>
stepGhost == <<entry, skipped, waited, reported>>
vehicleVars == <<mWheelVehicles, hierarchyActive, gear, rawInput, wheelState,
                 colliderPose, wheelCollider, mWheelQueryResults, mWheelHitResults,
                 mWheelVehiclesResultsPerWheel, mWheelVehiclesResultsPerVehicle,
                 mWheelVehiclesCache, mWheelRaycastBatchQuery, mWheelTireFrictions,
                 rebuilt, highWater>>
collectVars == <<vehicleVars, collectLog>>
settingsVars == <<mScene, sceneGravity, sceneCCD, sceneBounce, got>>
fnVars == <<fnCall, fnResult>>
otherVars == <<settingsVars, fnVars>>
vars == <<sceneVars, queueVars, fieldVars, threadVars, callVars, mFlushLocker,
          submitted, flushGhost, stepGhost, mEventsCallback, collectVars, otherVars>>

Range(s) == {s[i] : i \in 1..Len(s)}
Queues == [mNewActors |-> mNewActors, mActions |-> mActions,
           mDeadActors |-> mDeadActors, mDeadColliders |-> mDeadColliders,
           mDeadJoints |-> mDeadJoints, mDeadMaterials |-> mDeadMaterials,
           mDeadObjects |-> mDeadObjects]

\* The state after construction: an empty world, empty queues, no step.
InitScene ==
    /\ world = {} /\ userData = Actors /\ asleep = {} /\ releasedActors = {}
    /\ materialUserData = Materials /\ releasedMaterials = {} /\ releasedObjects = {}
    /\ stepInFlight = FALSE
    /\ mNewActors = <<>> /\ mActions = <<>> /\ mDeadActors = <<>>
    /\ mDeadColliders = <<>> /\ mDeadJoints = <<>>
    /\ mDeadMaterials = <<>> /\ mDeadObjects = <<>>
    /\ mFlushLocker = NoThread
    /\ mIsDuringSimulation = FALSE /\ mLastDeltaTime = 0
    /\ mStepper = FALSE /\ mScratchMemory = FALSE
    /\ pc = [t \in Threads |-> "idle"] /\ op = [t \in Threads |-> NoOp]
    /\ simDt = 0 /\ inSimulate = FALSE /\ assertFailed = FALSE
    /\ addDone = {} /\ addedFirst = {}
    /\ submitted = EmptyQueues /\ snapshot = EmptyQueues
    /\ flushLog = <<>> /\ flushCount = 0
    /\ entry = NoEntry /\ skipped = FALSE /\ waited = "no" /\ reported = {}
    /\ mEventsCallback = {} /\ collectLog = <<>>

\* The vehicles: registered and active in their hierarchy, in neutral gear,
\* nothing fed or synchronized yet, empty wheel buffers.
InitVehicles(vehicles) ==
    /\ mWheelVehicles = vehicles
    /\ hierarchyActive = Range(vehicles)
    /\ gear = [v \in Vehicles |-> 0]
    /\ rawInput = [v \in Vehicles |-> NoInput]
    /\ wheelState = [v \in Vehicles |-> "none"]
    /\ colliderPose = [v \in Vehicles |-> "none"]
    /\ wheelCollider \in SUBSET Range(vehicles)
    /\ mWheelQueryResults = 0 /\ mWheelHitResults = 0
    /\ mWheelVehiclesResultsPerWheel = 0
    /\ mWheelVehiclesResultsPerVehicle = <<>>
    /\ mWheelVehiclesCache = <<>>
    /\ mWheelRaycastBatchQuery = 0
    /\ mWheelTireFrictions = FALSE
    /\ rebuilt = FALSE /\ highWater = 0

\* sceneDesc.gravity, eENABLE_CCD and bounceThresholdVelocity as the
\* constructor sets them; live is FALSE when createScene or the dispatcher
\* creation failed.
InitSettings(live) ==
    /\ mScene = live
    /\ sceneGravity = DefaultGravity
    /\ sceneCCD = ~DisableCCD
    /\ sceneBounce = BounceThresholdVelocity
    /\ got = NoCall

InitFn(call) == fnCall = call /\ fnResult = NoCall

Init == InitScene /\ InitVehicles(<<>>) /\ InitSettings(TRUE) /\ InitFn(NoCall)

IsInMainThreadAlways(t) == TRUE
IsInMainThread(t) == t = MainThread

\* mFlushLocker.Lock(): blocks until the lock is free, then takes it.
LockBroken(t) == mFlushLocker' = t
Lock(t) == mFlushLocker = NoThread /\ mFlushLocker' = t
\* mFlushLocker.Unlock()
Unlock(t) == mFlushLocker' = NoThread

Goto(t, where) == pc' = [pc EXCEPT ![t] = where]
Running == ~assertFailed

\* ------------------------------------------------- the mutation operations
\* A call takes the lock (first step), then appends and releases the lock
\* (second step); another thread can run between the steps.
Call(kind, arg, sleep) == [kind |-> kind, arg |-> arg, putToSleep |-> sleep]
InCall(kind, arg) == \E t \in Threads : op[t].kind = kind /\ op[t].arg = arg
CallsOf(kind) == Cardinality({t \in Threads : op[t].kind = kind})
\* actors on which AddActor / RemoveActor was called
addCalled == addDone \cup {a \in Actors : InCall("AddActor", a) \/ InCall("AddActorSleep", a)}
removeCalled == {a \in Actors : InCall("RemoveActor", a) \/ a \in Range(mDeadActors)
                                    \/ a \in releasedActors}

OpLock(t, call) ==
    /\ Running
    /\ pc[t] = "idle"
    /\ Lock(t)
    /\ Goto(t, "add")
    /\ op' = [op EXCEPT ![t] = call]
AtAdd(t, kind, arg) ==
    Running /\ pc[t] = "add" /\ op[t].kind = kind /\ op[t].arg = arg
OpUnlock(t) ==
    /\ Unlock(t)
    /\ Goto(t, "idle")
    /\ op' = [op EXCEPT ![t] = NoOp]

RemoveMaterial(t, material) ==
    /\ \/ /\ material \notin releasedMaterials
          /\ material \notin Range(mDeadMaterials)
          /\ ~InCall("RemoveMaterial", material)
          /\ OpLock(t, Call("RemoveMaterial", material, FALSE))
          /\ submitted' = [submitted EXCEPT !.mDeadMaterials = Append(@, material)]
          /\ UNCHANGED <<sceneVars, queueVars, fieldVars, simDt, inSimulate,
                         assertFailed, callVars, flushGhost, stepGhost>>
       \/ /\ AtAdd(t, "RemoveMaterial", material)
          /\ mDeadMaterials' = Append(mDeadMaterials, material)
          /\ OpUnlock(t)
          /\ UNCHANGED <<sceneVars, mNewActors, mActions, mDeadActors, mDeadColliders,
                         mDeadJoints, mDeadObjects, fieldVars, simDt, inSimulate,
                         assertFailed, callVars, submitted, flushGhost, stepGhost>>
    /\ UNCHANGED <<mEventsCallback, collectVars, otherVars>>

RemoveObject(t, obj) ==
    /\ \/ /\ obj \notin releasedObjects
          /\ obj \notin Range(mDeadObjects)
          /\ ~InCall("RemoveObject", obj)
          /\ OpLock(t, Call("RemoveObject", obj, FALSE))
          /\ submitted' = [submitted EXCEPT !.mDeadObjects = Append(@, obj)]
          /\ UNCHANGED <<sceneVars, queueVars, fieldVars, simDt, inSimulate,
                         assertFailed, callVars, flushGhost, stepGhost>>
       \/ /\ AtAdd(t, "RemoveObject", obj)
          /\ mDeadObjects' = Append(mDeadObjects, obj)
          /\ OpUnlock(t)
          /\ UNCHANGED <<sceneVars, mNewActors, mActions, mDeadActors, mDeadColliders,
                         mDeadJoints, mDeadMaterials, fieldVars, simDt, inSimulate,
                         assertFailed, callVars, submitted, flushGhost, stepGhost>>
    /\ UNCHANGED <<mEventsCallback, collectVars, otherVars>>

RemoveCollider(t, collider) ==
    /\ \/ /\ Len(mDeadColliders) + CallsOf("RemoveCollider") < MaxQueue
          /\ OpLock(t, Call("RemoveCollider", collider, FALSE))
          /\ submitted' = [submitted EXCEPT !.mDeadColliders = Append(@, collider)]
          /\ UNCHANGED <<sceneVars, queueVars, fieldVars, simDt, inSimulate,
                         assertFailed, callVars, flushGhost, stepGhost>>
       \/ /\ AtAdd(t, "RemoveCollider", collider)
          /\ mDeadColliders' = Append(mDeadColliders, collider)
          /\ OpUnlock(t)
          /\ UNCHANGED <<sceneVars, mNewActors, mActions, mDeadActors, mDeadJoints,
                         mDeadMaterials, mDeadObjects, fieldVars, simDt, inSimulate,
                         assertFailed, callVars, submitted, flushGhost, stepGhost>>
    /\ UNCHANGED <<mEventsCallback, collectVars, otherVars>>

RemoveJoint(t, joint) ==
    /\ \/ /\ Len(mDeadJoints) + CallsOf("RemoveJoint") < MaxQueue
          /\ OpLock(t, Call("RemoveJoint", joint, FALSE))
          /\ submitted' = [submitted EXCEPT !.mDeadJoints = Append(@, joint)]
          /\ UNCHANGED <<sceneVars, queueVars, fieldVars, simDt, inSimulate,
                         assertFailed, callVars, flushGhost, stepGhost>>
       \/ /\ AtAdd(t, "RemoveJoint", joint)
          /\ mDeadJoints' = Append(mDeadJoints, joint)
          /\ OpUnlock(t)
          /\ UNCHANGED <<sceneVars, mNewActors, mActions, mDeadActors, mDeadColliders,
                         mDeadMaterials, mDeadObjects, fieldVars, simDt, inSimulate,
                         assertFailed, callVars, submitted, flushGhost, stepGhost>>
    /\ UNCHANGED <<mEventsCallback, collectVars, otherVars>>

\* AddActor(PxActor*): on the owning thread the actor enters the world at
\* once, on any other thread it is queued.
AddActor(t, actor) ==
    /\ \/ /\ actor \notin addCalled /\ actor \notin releasedActors /\ actor \notin world
          /\ OpLock(t, Call("AddActor", actor, FALSE))
          /\ submitted' = IF IsInMainThread(t) THEN submitted
                          ELSE [submitted EXCEPT !.mNewActors = Append(@, actor)]
          /\ UNCHANGED <<sceneVars, queueVars, fieldVars, simDt, inSimulate,
                         assertFailed, callVars, flushGhost, stepGhost>>
       \/ /\ AtAdd(t, "AddActor", actor)
          /\ IF IsInMainThread(t)
             THEN /\ world' = world \cup {actor}
                  /\ UNCHANGED mNewActors
             ELSE /\ mNewActors' = Append(mNewActors, actor)
                  /\ UNCHANGED world
          /\ OpUnlock(t)
          /\ addDone' = addDone \cup {actor}
          /\ UNCHANGED <<userData, asleep, releasedActors, materialUserData,
                         releasedMaterials, releasedObjects, stepInFlight, mActions,
                         mDeadActors, mDeadColliders, mDeadJoints, mDeadMaterials,
                         mDeadObjects, fieldVars, simDt, inSimulate, assertFailed,
                         addedFirst, submitted, flushGhost, stepGhost>>
    /\ UNCHANGED <<mEventsCallback, collectVars, otherVars>>

\* AddActor(PxRigidDynamic*, bool putToSleep)
AddActorSleep(t, actor, putToSleep) ==
    /\ \/ /\ actor \notin addCalled /\ actor \notin releasedActors /\ actor \notin world
          /\ OpLock(t, Call("AddActorSleep", actor, putToSleep))
          /\ submitted' =
               IF IsInMainThread(t) THEN submitted
               ELSE [submitted EXCEPT
                       !.mNewActors = Append(@, actor),
                       !.mActions = IF putToSleep THEN Append(@, <<"Sleep", actor>>) ELSE @]
          /\ UNCHANGED <<sceneVars, queueVars, fieldVars, simDt, inSimulate,
                         assertFailed, callVars, flushGhost, stepGhost>>
       \/ /\ AtAdd(t, "AddActorSleep", actor)
          /\ op[t].putToSleep = putToSleep
          /\ IF IsInMainThread(t)
             THEN /\ world' = world \cup {actor}
                  /\ asleep' = IF putToSleep THEN asleep \cup {actor} ELSE asleep
                  /\ UNCHANGED <<mNewActors, mActions>>
             ELSE /\ mNewActors' = Append(mNewActors, actor)
                  /\ mActions' = IF putToSleep THEN Append(mActions, <<"Sleep", actor>>)
                                 ELSE mActions
                  /\ UNCHANGED <<world, asleep>>
          /\ OpUnlock(t)
          /\ addDone' = addDone \cup {actor}
          /\ UNCHANGED <<userData, releasedActors, materialUserData,
                         releasedMaterials, releasedObjects, stepInFlight,
                         mDeadActors, mDeadColliders, mDeadJoints, mDeadMaterials,
                         mDeadObjects, fieldVars, simDt, inSimulate, assertFailed,
                         addedFirst, submitted, flushGhost, stepGhost>>
    /\ UNCHANGED <<mEventsCallback, collectVars, otherVars>>

\* UnlinkActor: owning thread only, removes the actor from the world at once.
UnlinkActor(t, actor) ==
    /\ Running
    /\ IsInMainThread(t)
    /\ pc[t] = "idle"
    /\ actor \in world
    /\ world' = world \ {actor}
    /\ UNCHANGED <<userData, asleep, releasedActors, materialUserData,
                   releasedMaterials, releasedObjects, stepInFlight, queueVars,
                   fieldVars, threadVars, callVars, mFlushLocker, submitted,
                   flushGhost, stepGhost>>
    /\ UNCHANGED <<mEventsCallback, collectVars, otherVars>>

\* RemoveActor: clears the actor's userData (before taking the lock), then
\* queues the actor for removal and release.
RemoveActor(t, actor) ==
    /\ \/ /\ Running
          /\ pc[t] = "idle"
          /\ actor \notin removeCalled
          /\ userData' = userData \ {actor}
          /\ Goto(t, "lock")
          /\ op' = [op EXCEPT ![t] = Call("RemoveActor", actor, FALSE)]
          /\ addedFirst' = IF actor \in addDone THEN addedFirst \cup {actor} ELSE addedFirst
          /\ UNCHANGED <<world, asleep, releasedActors, materialUserData,
                         releasedMaterials, releasedObjects, stepInFlight, queueVars,
                         fieldVars, simDt, inSimulate, assertFailed, addDone,
                         mFlushLocker, submitted, flushGhost, stepGhost>>
       \/ /\ Running
          /\ pc[t] = "lock"
          /\ op[t].kind = "RemoveActor" /\ op[t].arg = actor
          /\ Lock(t)
          /\ Goto(t, "add")
          /\ submitted' = [submitted EXCEPT !.mDeadActors = Append(@, actor)]
          /\ UNCHANGED <<sceneVars, queueVars, fieldVars, op, simDt, inSimulate,
                         assertFailed, callVars, flushGhost, stepGhost>>
       \/ /\ AtAdd(t, "RemoveActor", actor)
          /\ mDeadActors' = Append(mDeadActors, actor)
          /\ OpUnlock(t)
          /\ UNCHANGED <<sceneVars, mNewActors, mActions, mDeadColliders, mDeadJoints,
                         mDeadMaterials, mDeadObjects, fieldVars, simDt, inSimulate,
                         assertFailed, callVars, submitted, flushGhost, stepGhost>>
    /\ UNCHANGED <<mEventsCallback, collectVars, otherVars>>

\* ------------------------------------------------------------ FlushRequests
\* A backend or collector call made by a flush: its name, its argument and,
\* for an actor, whether the actor was in the world when the call was made.
Made(name, item, w) == <<name, item, item \in w>>
Calls(name, s, w) == [i \in 1..Len(s) |-> Made(name, s[i], w)]
ActionActors(actions) == [i \in 1..Len(actions) |-> actions[i][2]]

\* What a flush reads and writes: the world, the objects, the queues (q) and
\* the calls made so far (log).
Before ==
    [world |-> world, asleep |-> asleep, releasedActors |-> releasedActors,
     materialUserData |-> materialUserData, releasedMaterials |-> releasedMaterials,
     releasedObjects |-> releasedObjects, q |-> Queues, log |-> <<>>]

\* addActors(mNewActors); mNewActors.Clear()
FlushNewActorsWake(b) ==
    [b EXCEPT !.world = @ \cup Range(b.q.mNewActors),
              !.asleep = {},
              !.log = @ \o Calls("addActor", b.q.mNewActors, b.world),
              !.q.mNewActors = <<>>]
FlushNewActorsReconciled(b) ==
    LET kept == SelectSeq(b.q.mNewActors, LAMBDA a : a \notin Range(b.q.mDeadActors)) IN
    [b EXCEPT !.world = @ \cup Range(kept),
              !.log = @ \o Calls("addActor", kept, b.world),
              !.q.mNewActors = <<>>]
FlushNewActors(b) ==
    [b EXCEPT !.world = @ \cup Range(b.q.mNewActors),
              !.log = @ \o Calls("addActor", b.q.mNewActors, b.world),
              !.q.mNewActors = <<>>]

\* putToSleep() for each action; mActions.Clear()
FlushActionsNoClear(b) ==
    [b EXCEPT !.asleep = @ \cup Range(ActionActors(b.q.mActions)),
              !.log = @ \o Calls("putToSleep", ActionActors(b.q.mActions), b.world)]
FlushActions(b) ==
    [b EXCEPT !.asleep = @ \cup Range(ActionActors(b.q.mActions)),
              !.log = @ \o Calls("putToSleep", ActionActors(b.q.mActions), b.world),
              !.q.mActions = <<>>]

\* removeActors(mDeadActors); release() each; mDeadActors.Clear()
FlushDeadActors(b) ==
    [b EXCEPT !.world = @ \ Range(b.q.mDeadActors),
              !.releasedActors = @ \cup Range(b.q.mDeadActors),
              !.log = @ \o Calls("removeActor", b.q.mDeadActors, b.world)
                        \o Calls("release", b.q.mDeadActors,
                                 b.world \ Range(b.q.mDeadActors)),
              !.q.mDeadActors = <<>>]

\* mEventsCallback.OnColliderRemoved() each; mDeadColliders.Clear()
FlushDeadColliders(b) ==
    [b EXCEPT !.log = @ \o Calls("OnColliderRemoved", b.q.mDeadColliders, {}),
              !.q.mDeadColliders = <<>>]

\* mEventsCallback.OnJointRemoved() each; mDeadJoints.Clear()
FlushDeadJoints(b) ==
    [b EXCEPT !.log = @ \o Calls("OnJointRemoved", b.q.mDeadJoints, {}),
              !.q.mDeadJoints = <<>>]

\* material->userData = nullptr; material->release(), for each material.
MaterialCalls(materials) ==
    [i \in 1..(2 * Len(materials)) |->
        IF i % 2 = 1 THEN <<"unlinkMaterial", materials[(i + 1) \div 2], FALSE>>
        ELSE <<"releaseMaterial", materials[i \div 2], FALSE>>]
FlushDeadMaterials(b) ==
    [b EXCEPT !.materialUserData = @ \ Range(b.q.mDeadMaterials),
              !.releasedMaterials = @ \cup Range(b.q.mDeadMaterials),
              !.log = @ \o MaterialCalls(b.q.mDeadMaterials),
              !.q.mDeadMaterials = <<>>]

\* release() each object; mDeadObjects.Clear()
FlushDeadObjects(b) ==
    [b EXCEPT !.releasedObjects = @ \cup Range(b.q.mDeadObjects),
              !.log = @ \o Calls("releaseObject", b.q.mDeadObjects, {}),
              !.q.mDeadObjects = <<>>]

FlushPhase(phase, b) ==
    CASE phase = "mNewActors" -> FlushNewActors(b)
      [] phase = "mActions" -> FlushActions(b)
      [] phase = "mDeadActors" -> FlushDeadActors(b)
      [] phase = "mDeadColliders" -> FlushDeadColliders(b)
      [] phase = "mDeadJoints" -> FlushDeadJoints(b)
      [] phase = "mDeadMaterials" -> FlushDeadMaterials(b)
      [] phase = "mDeadObjects" -> FlushDeadObjects(b)

\* The order in which FlushRequests goes through the queues.
FlushOrderActionsFirst ==
    <<"mActions", "mNewActors", "mDeadActors", "mDeadColliders", "mDeadJoints",
      "mDeadMaterials", "mDeadObjects">>
FlushOrderDeadFirst ==
    <<"mDeadActors", "mNewActors", "mActions", "mDeadColliders", "mDeadJoints",
      "mDeadMaterials", "mDeadObjects">>
FlushOrder ==
    <<"mNewActors", "mActions", "mDeadActors", "mDeadColliders", "mDeadJoints",
      "mDeadMaterials", "mDeadObjects">>

RECURSIVE FlushPhases(_, _)
FlushPhases(order, b) ==
    IF order = <<>> THEN b ELSE FlushPhases(Tail(order), FlushPhase(Head(order), b))

AtPhase(phase) == Running /\ pc[MainThread] = phase

\* ASSERT(!IsDuringSimulation())
FlushAssertOff == TRUE
FlushAssert == ~mIsDuringSimulation

\* FlushRequests up to the lock: the assertion, then mFlushLocker.Lock().
FlushLock ==
    /\ FlushAssert
    /\ Lock(MainThread)
    /\ Goto(MainThread, "fl_body")
    /\ snapshot' = Queues
    /\ flushCount' = flushCount + 1
\* mFlushLocker.Unlock() at the end of FlushRequests.
FlushUnlock ==
    /\ Unlock(MainThread)
    /\ submitted' = EmptyQueues
    /\ flushLog' = <<>>

FlushRequests ==
    \* called on its own: the assertion, then the lock
    /\ \/ /\ Running
          /\ pc[MainThread] = "idle"
          /\ FlushLock
          /\ UNCHANGED <<sceneVars, queueVars, fieldVars, op, simDt, inSimulate,
                         assertFailed, callVars, submitted, flushLog, stepGhost>>
       \* the body, under the lock: every queue, in FlushOrder
       \/ /\ AtPhase("fl_body")
          /\ LET after == FlushPhases(FlushOrder, Before) IN
               /\ world' = after.world
               /\ asleep' = after.asleep
               /\ releasedActors' = after.releasedActors
               /\ materialUserData' = after.materialUserData
               /\ releasedMaterials' = after.releasedMaterials
               /\ releasedObjects' = after.releasedObjects
               /\ mNewActors' = after.q.mNewActors
               /\ mActions' = after.q.mActions
               /\ mDeadActors' = after.q.mDeadActors
               /\ mDeadColliders' = after.q.mDeadColliders
               /\ mDeadJoints' = after.q.mDeadJoints
               /\ mDeadMaterials' = after.q.mDeadMaterials
               /\ mDeadObjects' = after.q.mDeadObjects
               /\ flushLog' = after.log
          /\ Goto(MainThread, "fl_unlock")
          /\ UNCHANGED <<userData, stepInFlight, fieldVars, op, simDt, inSimulate,
                         assertFailed, callVars, mFlushLocker, submitted, snapshot,
                         flushCount, stepGhost>>
       \* called on its own: the unlock, and back to the caller
       \/ /\ AtPhase("fl_unlock")
          /\ ~inSimulate
          /\ FlushUnlock
          /\ Goto(MainThread, "idle")
          /\ snapshot' = EmptyQueues
          /\ flushCount' = 0
          /\ UNCHANGED <<sceneVars, queueVars, fieldVars, op, simDt, inSimulate,
                         assertFailed, callVars, stepGhost>>
    /\ UNCHANGED <<mEventsCallback, collectVars, otherVars>>

\* ----------------------------------------------------------------- Simulate
\* Math::Clamp(value, min, max)
ClampBelow(value, min, max) == IF value < min THEN min ELSE value
Clamp(value, min, max) == IF value < min THEN min ELSE IF value > max THEN max ELSE value

\* mStepper->advance(): false, without effect, when dt is below the minimal
\* epsilon; true once the step is dispatched.
Advance(dt) == dt >= MinEpsilon

\* ASSERT(IsInMainThread() && !mIsDuringSimulation)
SimulateAssert == ~mIsDuringSimulation

\* mLastDeltaTime once advance returned `dispatched`.
LastDeltaTimeAlways(dispatched, dt) == dt
LastDeltaTimeAfter(dispatched, dt) == IF dispatched THEN dt ELSE mLastDeltaTime

\* The Event Collector once advance returned `dispatched`:
\* mEventsCallback.Clear() after the early return.
EventsAfter(dispatched) == IF dispatched THEN {} ELSE mEventsCallback

\* mIsDuringSimulation once advance returned `dispatched`.
DuringSimulationAfter(dispatched) == TRUE

Simulate(dt) ==
    \* entry: the assertion, then FlushRequests() up to its lock
    /\ \/ /\ Running
          /\ pc[MainThread] = "idle"
          /\ SimulateAssert
          /\ FlushLock
          /\ inSimulate' = TRUE
          /\ entry' = [world |-> world, dt |-> mLastDeltaTime, arg |-> dt, active |-> TRUE]
          /\ UNCHANGED <<sceneVars, queueVars, fieldVars, op, simDt, assertFailed,
                         callVars, submitted, flushLog, skipped, waited, reported,
                         mEventsCallback>>
       \* mFlushLocker.Unlock() at the end of FlushRequests(), which returns
       \/ /\ AtPhase("fl_unlock")
          /\ inSimulate
          /\ entry.arg = dt
          /\ FlushUnlock
          /\ snapshot' = EmptyQueues
          /\ Goto(MainThread, "sim_advance")
          /\ UNCHANGED <<sceneVars, queueVars, fieldVars, op, simDt, inSimulate,
                         assertFailed, callVars, flushCount, stepGhost, mEventsCallback>>
       \* without the lock: clamp, scratch memory, stepper, Setup,
       \* mIsDuringSimulation = true, advance(); on true: mEventsCallback.Clear(),
       \* mLastDeltaTime = dt, renderDone()
       \/ /\ AtPhase("sim_advance")
          /\ entry.arg = dt
          /\ LET clamped == Clamp(dt, 0, MaxDeltaTime) IN
               /\ simDt' = clamped
               /\ stepInFlight' = (stepInFlight \/ Advance(clamped))
               /\ mEventsCallback' = EventsAfter(Advance(clamped))
               /\ mLastDeltaTime' = LastDeltaTimeAfter(Advance(clamped), clamped)
               /\ mIsDuringSimulation' = DuringSimulationAfter(Advance(clamped))
               /\ skipped' = ~Advance(clamped)
          /\ mScratchMemory' = TRUE
          /\ mStepper' = TRUE
          /\ Goto(MainThread, "sim_return")
          /\ UNCHANGED <<world, userData, asleep, releasedActors, materialUserData,
                         releasedMaterials, releasedObjects, queueVars, op, inSimulate,
                         assertFailed, callVars, mFlushLocker, submitted, flushGhost,
                         entry, waited, reported>>
       \* return
       \/ /\ AtPhase("sim_return")
          /\ entry.arg = dt
          /\ Goto(MainThread, "idle")
          /\ simDt' = 0
          /\ inSimulate' = FALSE
          /\ flushCount' = 0
          /\ entry' = NoEntry
          /\ skipped' = FALSE
          /\ UNCHANGED <<sceneVars, queueVars, fieldVars, op, assertFailed, callVars,
                         mFlushLocker, submitted, snapshot, flushLog, waited, reported,
                         mEventsCallback>>
    /\ UNCHANGED <<collectVars, otherVars>>

\* ----------------------------------------------------------- CollectResults
\* --------------------------------------------------- the vehicle pipeline
\* Speeds and inputs are the float values of the code, taken at integers.
InvalidDirectionThreshold == 80
BreakThreshold == 8
Abs(x) == IF x < 0 THEN -x ELSE x
Max(a, b) == IF a > b THEN a ELSE b

\* What the loop over mWheelVehicles reads of a vehicle:
\* [useReverseAsBrake, useAnalogSteering, throttle, brake, forwardSpeed,
\*  targetGear, forced], forced telling whether SetCurrentGear also moves
\* the target gear (WheeledVehicle is not part of this file).
ControlsOf(reverse, analog, throttle, brake, speed, target, forced) ==
    [useReverseAsBrake |-> reverse, useAnalogSteering |-> analog,
     throttle |-> throttle, brake |-> brake, forwardSpeed |-> speed,
     targetGear |-> target, forced |-> forced]

\* Automatic gear change when changing driving direction: the current gear
\* after it.  ZeroTolerance lies strictly between 0 and the next input value.
GearAfter(c, currentGear) ==
    IF c.useReverseAsBrake /\ Abs(c.forwardSpeed) < InvalidDirectionThreshold
    THEN IF c.throttle < 0 /\ currentGear >= 0 /\ c.targetGear >= 0 THEN -1
         ELSE IF c.throttle > 0 /\ currentGear <= 0 /\ c.targetGear <= 0 THEN 1
         ELSE currentGear
    ELSE currentGear
\* GetTargetGear() after the gear change.
TargetGearAfter(c, currentGear) ==
    IF GearAfter(c, currentGear) # currentGear /\ c.forced
    THEN GearAfter(c, currentGear) ELSE c.targetGear
\* Automatic break when changing driving direction.
BrakeAfter(c) ==
    IF ~c.useReverseAsBrake THEN c.brake
    ELSE IF c.throttle > 0
         THEN (IF c.forwardSpeed < -InvalidDirectionThreshold THEN 1 ELSE c.brake)
    ELSE IF c.throttle < 0
         THEN (IF c.forwardSpeed > InvalidDirectionThreshold THEN 1 ELSE c.brake)
    ELSE IF c.forwardSpeed < BreakThreshold /\ c.forwardSpeed > -BreakThreshold
         THEN 1 ELSE c.brake
\* Block throttle if user is changing driving direction; Math::Abs, or
\* Math::Max(throttle, 0) without UseReverseAsBrake.
ThrottleAfter(c, currentGear) ==
    IF ~c.useReverseAsBrake THEN Max(c.throttle, 0)
    ELSE IF \/ c.throttle > 0 /\ TargetGearAfter(c, currentGear) < 0
            \/ c.throttle < 0 /\ TargetGearAfter(c, currentGear) > 0
         THEN Abs(0)
         ELSE Abs(c.throttle)
\* rawInputData: setAnalogAccel / setAnalogBrake, or setDigitalAccel /
\* setDigitalBrake of (value > deadZone), deadZone lying strictly between 0
\* and the next input value.
RawInput(c, currentGear) ==
    IF c.useAnalogSteering
    THEN [fed |-> "analog", accel |-> ThrottleAfter(c, currentGear),
          brake |-> BrakeAfter(c), digitalAccel |-> FALSE, digitalBrake |-> FALSE]
    ELSE [fed |-> "digital", accel |-> 0, brake |-> 0,
          digitalAccel |-> ThrottleAfter(c, currentGear) > 0,
          digitalBrake |-> BrakeAfter(c) > 0]

\* The controls a frame reads of the active vehicles, which share a driver.
FrameControls ==
    {ControlsOf(TRUE, TRUE, 1, 0, -90, -1, TRUE),
     ControlsOf(TRUE, FALSE, -1, 0, 0, 0, TRUE),
     ControlsOf(FALSE, TRUE, -1, 1, 90, 1, FALSE)}

\* mWheelVehiclesCache: the active vehicles, in the order of mWheelVehicles.
Cached(vehicles) == SelectSeq(vehicles, LAMBDA v : v \in hierarchyActive)
RECURSIVE Sum(_)
Sum(counts) == IF counts = <<>> THEN 0 ELSE Head(counts) + Sum(Tail(counts))
\* wheelsCount += drive->mWheelsSimData.getNbWheels() over the active vehicles
WheelsCount(vehicles) ==
    Sum([k \in 1..Len(Cached(vehicles)) |-> NbWheels(Cached(vehicles)[k])])

\* if (wheelsCount > mWheelQueryResults.Count())
GrowsOnChange(wheelsCount) == wheelsCount # mWheelQueryResults
Grows(wheelsCount) == wheelsCount > mWheelQueryResults

\* Setup cache for wheel states: record ii takes its wheel count from
\* mWheelVehicles[ii]->_drive and its slice starts where the one before ends.
RECURSIVE PerVehicle(_, _, _)
PerVehicle(vehicles, ii, wheelsCount) ==
    IF ii > Len(Cached(vehicles)) THEN <<>>
    ELSE <<[nbWheelQueryResults |-> NbWheels(vehicles[ii]),
            wheelQueryResults |-> wheelsCount]>>
         \o PerVehicle(vehicles, ii + 1, wheelsCount + NbWheels(vehicles[ii]))

\* if (!wheelVehicle->IsActiveInHierarchy()) continue;
SkippedNever(v) == FALSE
Skipped(v) == v \notin hierarchyActive

\* The block under if (mWheelVehicles.HasItems()): inputs, buffers, records,
\* raycasts and update, synchronization of the wheel states and colliders.
VehiclePipeline(controls, inAir) ==
    IF mWheelVehicles = <<>> THEN UNCHANGED vehicleVars
    ELSE LET wheelsCount == WheelsCount(mWheelVehicles) IN
        /\ mWheelVehiclesCache' = Cached(mWheelVehicles)
        /\ gear' = [v \in Vehicles |->
                IF v \in Range(mWheelVehicles) /\ ~Skipped(v)
                THEN GearAfter(controls, gear[v]) ELSE gear[v]]
        /\ rawInput' = [v \in Vehicles |->
                IF v \in Range(mWheelVehicles) /\ ~Skipped(v)
                THEN RawInput(controls, gear[v]) ELSE rawInput[v]]
        /\ rebuilt' = Grows(wheelsCount)
        /\ mWheelRaycastBatchQuery' = IF Grows(wheelsCount)
                                      THEN wheelsCount ELSE mWheelRaycastBatchQuery
        /\ mWheelQueryResults' = IF Grows(wheelsCount)
                                 THEN wheelsCount ELSE mWheelQueryResults
        /\ mWheelHitResults' = IF Grows(wheelsCount)
                               THEN wheelsCount ELSE mWheelHitResults
        /\ mWheelTireFrictions' = TRUE
        /\ mWheelVehiclesResultsPerVehicle' = PerVehicle(mWheelVehicles, 1, 0)
        /\ mWheelVehiclesResultsPerWheel' = wheelsCount
        /\ wheelState' = [v \in Vehicles |->
                IF v \in Range(mWheelVehicles) /\ ~Skipped(v)
                THEN (IF inAir THEN "air" ELSE "ground") ELSE wheelState[v]]
        /\ colliderPose' = [v \in Vehicles |->
                IF v \in Range(mWheelVehicles) /\ ~Skipped(v) /\ v \in wheelCollider
                THEN (IF inAir THEN "air" ELSE "ground") ELSE colliderPose[v]]
        /\ UNCHANGED <<mWheelVehicles, hierarchyActive, wheelCollider, highWater>>

\* The vehicle's owner activates or deactivates it, between the calls of
\* the owning thread.
SetActive(v, active) ==
    /\ Running
    /\ pc[MainThread] = "idle"
    /\ v \in Range(mWheelVehicles)
    /\ (v \in hierarchyActive) # active
    /\ hierarchyActive' = IF active THEN hierarchyActive \cup {v}
                          ELSE hierarchyActive \ {v}
    /\ UNCHANGED <<sceneVars, queueVars, fieldVars, threadVars, callVars, mFlushLocker,
                   submitted, flushGhost, stepGhost, mEventsCallback, collectLog,
                   otherVars, mWheelVehicles, gear, rawInput, wheelState, colliderPose,
                   wheelCollider,
                   mWheelQueryResults, mWheelHitResults, mWheelVehiclesResultsPerWheel,
                   mWheelVehiclesResultsPerVehicle, mWheelVehiclesCache,
                   mWheelRaycastBatchQuery, mWheelTireFrictions, rebuilt, highWater>>

\* ----------------------------------------------------------- CollectResults
\* The phases up to the events: mStepper->wait, the vehicles when
\* mWheelVehicles.HasItems(), the active transforms.
CollectPhasesAlways(hasVehicles) == <<"wait", "vehicles", "transforms">>
CollectPhases(hasVehicles) ==
    <<"wait">> \o (IF hasVehicles THEN <<"vehicles">> ELSE <<>>) \o <<"transforms">>
\* mEventsCallback.CollectResults(), SendTriggerEvents(),
\* SendCollisionEvents(), SendJointEvents()
SendEvents ==
    <<"CollectResults", "SendTriggerEvents", "SendCollisionEvents", "SendJointEvents">>

\* if (!mIsDuringSimulation) return;
CollectGuard == mIsDuringSimulation

CollectResults ==
    \* the early return: nothing changes
    /\ \/ /\ Running
          /\ pc[MainThread] = "idle"
          /\ ~CollectGuard
          /\ UNCHANGED vars
       \* mStepper->wait(mScene), in which the backend hands the step's events to
       \* the Event Collector; the vehicles; then getActiveActors(), ASSERT(actor)
       \* and OnActiveTransformChanged() for each active actor; then
       \* mEventsCallback: CollectResults, SendTriggerEvents, SendCollisionEvents,
       \* SendJointEvents
       \/ /\ Running
          /\ pc[MainThread] = "idle"
          /\ CollectGuard
          /\ waited' = IF stepInFlight THEN "step" ELSE "nostep"
          /\ stepInFlight' = FALSE
          /\ mEventsCallback' = mEventsCallback \cup (IF stepInFlight THEN {"new"} ELSE {})
          /\ \E controls \in (IF mWheelVehicles = <<>> THEN {NoCall} ELSE FrameControls),
                inAir \in (IF mWheelVehicles = <<>> THEN {FALSE} ELSE BOOLEAN) :
               VehiclePipeline(controls, inAir)
          /\ \E activeActors \in SUBSET (world \cap RigidDynamics) :
               /\ assertFailed' = ~(activeActors \subseteq userData)
               /\ reported' = IF activeActors \subseteq userData THEN activeActors ELSE {}
               /\ collectLog' = CollectPhases(mWheelVehicles # <<>>)
                       \o (IF activeActors \subseteq userData THEN SendEvents ELSE <<>>)
               /\ Goto(MainThread, IF activeActors \subseteq userData
                                   THEN "cr_end" ELSE "cr_transforms")
          /\ UNCHANGED <<world, userData, asleep, releasedActors, materialUserData,
                         releasedMaterials, releasedObjects, queueVars, fieldVars, op,
                         simDt, inSimulate, callVars, mFlushLocker, submitted,
                         flushGhost, entry, skipped>>
       \* mIsDuringSimulation = false; the events published stay in the collector
       \/ /\ AtPhase("cr_end")
          /\ mIsDuringSimulation' = FALSE
          /\ Goto(MainThread, "idle")
          /\ waited' = "no"
          /\ reported' = {}
          /\ collectLog' = <<>>
          /\ mEventsCallback' = IF mEventsCallback = {} THEN {} ELSE {"old"}
          /\ rebuilt' = FALSE
          /\ highWater' = IF mWheelVehicles = <<>> THEN highWater
                          ELSE Max(highWater, mWheelVehiclesResultsPerWheel)
          /\ UNCHANGED <<sceneVars, queueVars, mLastDeltaTime, mStepper,
                         mScratchMemory, op, simDt, inSimulate, assertFailed, callVars,
                         mFlushLocker, submitted, flushGhost, entry, skipped,
                         mWheelVehicles, hierarchyActive, gear, rawInput, wheelState,
                         colliderPose, wheelCollider, mWheelQueryResults,
                         mWheelHitResults,
                         mWheelVehiclesResultsPerWheel, mWheelVehiclesResultsPerVehicle,
                         mWheelVehiclesCache, mWheelRaycastBatchQuery, mWheelTireFrictions>>
    /\ UNCHANGED otherVars

\* ------------------------------------------------------ the specifications
\* The step protocol: the actor operations on every thread, FlushRequests,
\* Simulate with every delta time, CollectResults.
Next ==
    \/ \E t \in Threads, actor \in Actors : AddActor(t, actor)
    \/ \E t \in Threads, actor \in RigidDynamics, putToSleep \in BOOLEAN :
            AddActorSleep(t, actor, putToSleep)
    \/ \E actor \in Actors : UnlinkActor(MainThread, actor)
    \/ \E t \in Threads, actor \in Actors : RemoveActor(t, actor)
    \/ FlushRequests
    \/ \E dt \in DeltaTimes : Simulate(dt)
    \/ CollectResults

Spec == Init /\ [][Next]_vars

\* The queues: the mutation operations on the worker threads, with the
\* owning thread's FlushRequests, Simulate and CollectResults.  A worker's
\* AddActor(PxActor*) queues as AddActor(PxRigidDynamic*, false) does.
NextQueues ==
    \/ \E t \in Workers, actor \in RigidDynamics, putToSleep \in BOOLEAN :
            AddActorSleep(t, actor, putToSleep)
    \/ \E t \in Workers, actor \in RigidDynamics : RemoveActor(t, actor)
    \/ \E t \in Workers, collider \in Colliders : RemoveCollider(t, collider)
    \/ \E t \in Workers, joint \in Joints : RemoveJoint(t, joint)
    \/ \E t \in Workers, material \in Materials : RemoveMaterial(t, material)
    \/ \E t \in Workers, obj \in Objects : RemoveObject(t, obj)
    \/ FlushRequests
    \/ \E dt \in FrameDeltaTimes : Simulate(dt)
    \/ CollectResults

SpecQueues == Init /\ [][NextQueues]_vars

\* The vehicles: the owning thread's Simulate / CollectResults cycle with
\* registered vehicles that their owners activate and deactivate.
InitWithVehicles ==
    /\ InitScene /\ InitSettings(TRUE) /\ InitFn(NoCall)
    /\ \E vehicles \in VehicleLists : InitVehicles(vehicles)
NextVehicles ==
    \/ \E v \in Vehicles, active \in BOOLEAN : SetActive(v, active)
    \/ FlushRequests
    \/ \E dt \in FrameDeltaTimes : Simulate(dt)
    \/ CollectResults

SpecVehicles == InitWithVehicles /\ [][NextVehicles]_vars

\* ------------------------------------------------- functions of the file
\* a & b on unsigned integers
RECURSIVE BitAnd(_, _)
BitAnd(a, b) ==
    IF a = 0 \/ b = 0 THEN 0
    ELSE (a % 2) * (b % 2) + 2 * BitAnd(a \div 2, b \div 2)

\* PxFilterObjectAttributes as [trigger, kinematic], PxFilterData as
\* [word0, word1], PxPairFlags as the set of the flags that are set.
FilterShaderNoKinematic(attributes0, filterData0, attributes1, filterData1, pairFlags) ==
    IF attributes0.trigger \/ attributes1.trigger
    THEN [flags |-> pairFlags \cup {"eNOTIFY_TOUCH_FOUND", "eNOTIFY_TOUCH_LOST",
                                    "eDETECT_DISCRETE_CONTACT"},
          result |-> "eDEFAULT"]
    ELSE IF /\ BitAnd(filterData0.word0, filterData1.word1) # 0
            /\ BitAnd(filterData1.word0, filterData0.word1) # 0
    THEN [flags |-> pairFlags \cup {"eSOLVE_CONTACT", "eDETECT_DISCRETE_CONTACT",
                                    "eNOTIFY_TOUCH_FOUND", "eNOTIFY_TOUCH_PERSISTS",
                                    "ePOST_SOLVER_VELOCITY", "eNOTIFY_CONTACT_POINTS"},
          result |-> "eDEFAULT"]
    ELSE [flags |-> pairFlags, result |-> "eKILL"]
FilterShaderOneWay(attributes0, filterData0, attributes1, filterData1, pairFlags) ==
    IF attributes0.trigger \/ attributes1.trigger
    THEN [flags |-> pairFlags \cup {"eNOTIFY_TOUCH_FOUND", "eNOTIFY_TOUCH_LOST",
                                    "eDETECT_DISCRETE_CONTACT"},
          result |-> "eDEFAULT"]
    ELSE IF attributes0.kinematic /\ attributes1.kinematic
    THEN [flags |-> pairFlags \cup {"eNOTIFY_TOUCH_FOUND", "eNOTIFY_TOUCH_PERSISTS",
                                    "eNOTIFY_TOUCH_LOST", "eDETECT_DISCRETE_CONTACT"},
          result |-> "eSUPPRESS"]
    ELSE IF BitAnd(filterData0.word0, filterData1.word1) # 0
    THEN [flags |-> pairFlags \cup {"eSOLVE_CONTACT", "eDETECT_DISCRETE_CONTACT",
                                    "eNOTIFY_TOUCH_FOUND", "eNOTIFY_TOUCH_PERSISTS",
                                    "ePOST_SOLVER_VELOCITY", "eNOTIFY_CONTACT_POINTS"},
          result |-> "eDEFAULT"]
    ELSE [flags |-> pairFlags, result |-> "eKILL"]
FilterShader(attributes0, filterData0, attributes1, filterData1, pairFlags) ==
    IF attributes0.trigger \/ attributes1.trigger
    THEN [flags |-> pairFlags \cup {"eNOTIFY_TOUCH_FOUND", "eNOTIFY_TOUCH_LOST",
                                    "eDETECT_DISCRETE_CONTACT"},
          result |-> "eDEFAULT"]
    ELSE IF attributes0.kinematic /\ attributes1.kinematic
    THEN [flags |-> pairFlags \cup {"eNOTIFY_TOUCH_FOUND", "eNOTIFY_TOUCH_PERSISTS",
                                    "eNOTIFY_TOUCH_LOST", "eDETECT_DISCRETE_CONTACT"},
          result |-> "eSUPPRESS"]
    ELSE IF /\ BitAnd(filterData0.word0, filterData1.word1) # 0
            /\ BitAnd(filterData1.word0, filterData0.word1) # 0
    THEN [flags |-> pairFlags \cup {"eSOLVE_CONTACT", "eDETECT_DISCRETE_CONTACT",
                                    "eNOTIFY_TOUCH_FOUND", "eNOTIFY_TOUCH_PERSISTS",
                                    "ePOST_SOLVER_VELOCITY", "eNOTIFY_CONTACT_POINTS"},
          result |-> "eDEFAULT"]
    ELSE [flags |-> pairFlags, result |-> "eKILL"]

\* A uint32 as its two 16-bit halves; value - 1 is taken modulo 2^32.
Uint32(value) == [hi |-> (value \div 65536) % 65536, lo |-> value % 65536]
\* Math::Clamp<uint32>(value, min, max) for min and max below 2^16
ClampUint32(value, min, max) ==
    IF value.hi = 0 /\ value.lo < min THEN min
    ELSE IF value.hi > 0 \/ value.lo > max THEN max
    ELSE value.lo
\* Math::Clamp<uint32>(cpuInfo.ProcessorCoreCount - 1, 1, 4)
ThreadsCount(ProcessorCoreCount) == ClampUint32(Uint32(ProcessorCoreCount - 1), 1, 4)

\* The arguments the functions are applied to.
Attributes == [trigger : BOOLEAN, kinematic : BOOLEAN]
FilterDatas == [word0 : 0..3, word1 : 0..3]
PairFlags == {{}, {"eMODIFY_CONTACTS"}}
Speeds == {-90, -80, -8, 0, 8, 80, 90}
CoreCounts == 0..9
FnCalls ==
    [kind : {"FilterShader"}, attributes0 : Attributes, filterData0 : FilterDatas,
     attributes1 : Attributes, filterData1 : FilterDatas, pairFlags : PairFlags]
    \cup [kind : {"VehicleInput"}, currentGear : {-1, 0, 1},
          controls : {ControlsOf(r, a, t, b, sp, tg, f) :
                        r \in BOOLEAN, a \in BOOLEAN, t \in {-1, 0, 1}, b \in {0, 1},
                        sp \in Speeds, tg \in {-1, 0, 1}, f \in BOOLEAN}]
    \cup [kind : {"ThreadsCount"}, ProcessorCoreCount : CoreCounts]

ApplyFilterShader ==
    /\ fnCall.kind = "FilterShader" /\ fnResult = NoCall
    /\ fnResult' = [kind |-> "FilterShader",
                    out |-> FilterShader(fnCall.attributes0, fnCall.filterData0,
                                         fnCall.attributes1, fnCall.filterData1,
                                         fnCall.pairFlags)]
    /\ UNCHANGED <<sceneVars, queueVars, fieldVars, threadVars, callVars, mFlushLocker,
                   submitted, flushGhost, stepGhost, mEventsCallback, collectVars,
                   settingsVars, fnCall>>
\* The input pass of CollectResults for one vehicle.
ApplyVehicleInput ==
    /\ fnCall.kind = "VehicleInput" /\ fnResult = NoCall
    /\ fnResult' = [kind |-> "VehicleInput",
                    currentGear |-> GearAfter(fnCall.controls, fnCall.currentGear),
                    input |-> RawInput(fnCall.controls, fnCall.currentGear)]
    /\ UNCHANGED <<sceneVars, queueVars, fieldVars, threadVars, callVars, mFlushLocker,
                   submitted, flushGhost, stepGhost, mEventsCallback, collectVars,
                   settingsVars, fnCall>>
\* The constructor's PxDefaultCpuDispatcherCreate argument.
ApplyThreadsCount ==
    /\ fnCall.kind = "ThreadsCount" /\ fnResult = NoCall
    /\ fnResult' = [kind |-> "ThreadsCount", n |-> ThreadsCount(fnCall.ProcessorCoreCount)]
    /\ UNCHANGED <<sceneVars, queueVars, fieldVars, threadVars, callVars, mFlushLocker,
                   submitted, flushGhost, stepGhost, mEventsCallback, collectVars,
                   settingsVars, fnCall>>

InitFunctions ==
    /\ InitScene /\ InitVehicles(<<>>) /\ InitSettings(TRUE)
    /\ \E call \in FnCalls : InitFn(call)
NextFunctions == ApplyFilterShader \/ ApplyVehicleInput \/ ApplyThreadsCount
SpecFunctions == InitFunctions /\ [][NextFunctions]_vars

\* ------------------------------------------------------ scene settings
\* Everything but the settings.
notSettings ==
    <<sceneVars, queueVars, fieldVars, threadVars, callVars, mFlushLocker, submitted,
      flushGhost, stepGhost, mEventsCallback, collectVars, fnVars>>
\* Values handed to the setters; a vector is modelled by its vertical
\* component, Vector3::Zero by 0.
Gravities == {0, 500, DefaultGravity}
Thresholds == {100, BounceThresholdVelocity, 300}

SetGravity(value) ==
    /\ sceneGravity' = IF mScene THEN value ELSE sceneGravity
    /\ UNCHANGED <<mScene, sceneCCD, sceneBounce, got, notSettings>>
GetGravity ==
    /\ got' = [kind |-> "GetGravity", value |-> IF mScene THEN sceneGravity ELSE 0]
    /\ UNCHANGED <<mScene, sceneGravity, sceneCCD, sceneBounce, notSettings>>
GetEnableCCD ==
    /\ got' = [kind |-> "GetEnableCCD", value |-> IF mScene THEN sceneCCD ELSE ~DisableCCD]
    /\ UNCHANGED <<mScene, sceneGravity, sceneCCD, sceneBounce, notSettings>>
SetEnableCCD(value) ==
    /\ sceneCCD' = IF mScene THEN value ELSE sceneCCD
    /\ UNCHANGED <<mScene, sceneGravity, sceneBounce, got, notSettings>>
GetBounceThresholdVelocity ==
    /\ got' = [kind |-> "GetBounceThresholdVelocity",
               value |-> IF mScene THEN sceneBounce ELSE BounceThresholdVelocity]
    /\ UNCHANGED <<mScene, sceneGravity, sceneCCD, sceneBounce, notSettings>>
SetBounceThresholdVelocity(value) ==
    /\ sceneBounce' = IF mScene THEN value ELSE sceneBounce
    /\ UNCHANGED <<mScene, sceneGravity, sceneCCD, got, notSettings>>

\* The scene after a construction that created the world (live) or failed.
InitMaybeLive ==
    /\ InitScene /\ InitVehicles(<<>>) /\ InitFn(NoCall)
    /\ \E live \in BOOLEAN : InitSettings(live)
NextSettings ==
    \/ \E value \in Gravities : SetGravity(value)
    \/ GetGravity
    \/ GetEnableCCD
    \/ \E value \in BOOLEAN : SetEnableCCD(value)
    \/ GetBounceThresholdVelocity
    \/ \E value \in Thresholds : SetBounceThresholdVelocity(value)
SpecSettings == InitMaybeLive /\ [][NextSettings]_vars

\* ---------------------------------------------------------------- the claims
Main == pc[MainThread]
InFlush == Main \in {"fl_body", "fl_unlock"}
MidStep == mIsDuringSimulation /\ stepInFlight
Names(name, s) == [i \in 1..Len(s) |-> <<name, s[i]>>]
Stripped(log) == [i \in 1..Len(log) |-> <<log[i][1], log[i][2]>>]
Times(s, x) == Cardinality({i \in 1..Len(s) : s[i] = x})

\* C1: a thread reads or writes the queues only while it holds mFlushLocker,
\* and whenever the lock is free, and when a flush has just taken it, every
\* queue holds exactly the items submitted since the previous flush, in the
\* order in which their callers took the lock.
C1_QueuesUnderLock ==
    /\ \A t \in Threads :
            (pc[t] = "add" \/ (t = MainThread /\ InFlush)) => mFlushLocker = t
    /\ mFlushLocker = NoThread => Queues = submitted
    /\ Main = "fl_body" => (Queues = submitted /\ snapshot = submitted)
\* A flush inside Simulate, after an earlier step, finds two different
\* colliders and a new actor queued by the workers, a third call waiting.
C1_Witness ==
    /\ Main = "fl_body" /\ inSimulate /\ mLastDeltaTime = MaxDeltaTime
    /\ Len(mDeadColliders) = 2 /\ mDeadColliders[1] # mDeadColliders[2]
    /\ mNewActors # <<>>
    /\ \E t \in Workers : pc[t] = "lock"

\* C2 (as claimed): while a step is in flight, a step of a worker thread
\* changes neither the world's actor set nor the userData or sleep state of
\* an actor in the world.
C2_WorkersLeaveWorldAlone ==
    [][(MidStep /\ \E t \in Workers : pc'[t] # pc[t])
        => /\ world' = world
           /\ \A a \in world : /\ (a \in userData') = (a \in userData)
                               /\ (a \in asleep') = (a \in asleep)]_vars

\* C3 (as claimed): no step changes the world's actor set while
\* mIsDuringSimulation is true.
C3_NoChangeMidStep == [][mIsDuringSimulation => world' = world]_vars
\* C3 (amended): while mIsDuringSimulation is true the world's actor set is
\* changed only by AddActor and UnlinkActor called on the owning thread.
C3_OnlyOwningThreadMidStep ==
    [][(mIsDuringSimulation /\ world' # world)
        => \E a \in Actors :
              \/ AddActor(MainThread, a)
              \/ AddActorSleep(MainThread, a, TRUE)
              \/ AddActorSleep(MainThread, a, FALSE)
              \/ UnlinkActor(MainThread, a)]_vars
\* The owning thread is inside AddActor while a step is in flight, and a
\* worker's AddActor of the same step is still queued.
C3_Witness ==
    /\ MidStep /\ Main = "add" /\ op[MainThread].kind = "AddActor"
    /\ mNewActors # <<>> /\ world = {}

\* C4: FlushRequests runs only while no step is in flight and
\* mIsDuringSimulation is false; Simulate has made exactly one flush when it
\* reaches advance and when it returns.
C4_FlushBeforeStep ==
    /\ InFlush => (~mIsDuringSimulation /\ ~stepInFlight)
    /\ (inSimulate /\ InFlush) => (flushCount = 1 /\ entry.active)
    /\ Main = "sim_advance" => (flushCount = 1 /\ ~mIsDuringSimulation)
    /\ Main = "sim_return" => (flushCount = 1 /\ mIsDuringSimulation)
\* Simulate flushes queued actors after an earlier step was collected.
C4_Witness ==
    /\ Main = "fl_unlock" /\ inSimulate /\ mLastDeltaTime # 0
    /\ snapshot.mNewActors # <<>> /\ snapshot.mDeadActors # <<>>

\* C5: the calls of one flush are: addActor for every new actor, putToSleep
\* for every action, removeActor for every dead actor and then release for
\* every dead actor, OnColliderRemoved, OnJointRemoved, for every material
\* the unlink and then the release, release of the objects; every putToSleep
\* is made on an actor in the world and every release on an actor outside it.
C5_FlushLogOrder ==
    Main = "fl_unlock" =>
        /\ Stripped(flushLog) =
                Names("addActor", snapshot.mNewActors)
             \o Names("putToSleep", ActionActors(snapshot.mActions))
             \o Names("removeActor", snapshot.mDeadActors)
             \o Names("release", snapshot.mDeadActors)
             \o Names("OnColliderRemoved", snapshot.mDeadColliders)
             \o Names("OnJointRemoved", snapshot.mDeadJoints)
             \o Stripped(MaterialCalls(snapshot.mDeadMaterials))
             \o Names("releaseObject", snapshot.mDeadObjects)
        /\ \A i \in 1..Len(flushLog) :
                /\ flushLog[i][1] = "putToSleep" => flushLog[i][3]
                /\ flushLog[i][1] = "release" => ~flushLog[i][3]
\* A flush that found something in each of the seven queues.
C5_Witness ==
    /\ Main = "fl_unlock"
    /\ \A q \in DOMAIN snapshot : snapshot[q] # <<>>

\* C6: when a flush is about to unlock, the seven queues are empty and every
\* item it found queued was applied as many times as it was queued; a flush
\* finds exactly what was submitted since the previous one; and while the
\* lock is free the queues hold what was submitted since, so that nothing
\* applied stays queued and nothing submitted is lost.
C6_AppliedOnce ==
    /\ Main = "fl_unlock" =>
        /\ Queues = EmptyQueues
        /\ \A a \in Actors :
              /\ Times(Stripped(flushLog), <<"addActor", a>>) = Times(snapshot.mNewActors, a)
              /\ Times(Stripped(flushLog), <<"putToSleep", a>>)
                    = Times(snapshot.mActions, <<"Sleep", a>>)
              /\ Times(Stripped(flushLog), <<"removeActor", a>>) = Times(snapshot.mDeadActors, a)
              /\ Times(Stripped(flushLog), <<"release", a>>) = Times(snapshot.mDeadActors, a)
        /\ \A c \in Colliders :
              Times(Stripped(flushLog), <<"OnColliderRemoved", c>>)
                    = Times(snapshot.mDeadColliders, c)
        /\ \A j \in Joints :
              Times(Stripped(flushLog), <<"OnJointRemoved", j>>) = Times(snapshot.mDeadJoints, j)
        /\ \A m \in Materials :
              Times(Stripped(flushLog), <<"releaseMaterial", m>>)
                    = Times(snapshot.mDeadMaterials, m)
        /\ \A o \in Objects :
              Times(Stripped(flushLog), <<"releaseObject", o>>) = Times(snapshot.mDeadObjects, o)
    /\ InFlush => snapshot = submitted
    /\ (Main = "idle" /\ mFlushLocker = NoThread) => Queues = submitted
\* A flush that applied the same collider twice and a sleep action, while a
\* worker's RemoveActor waits for the lock the flush holds.
C6_Witness ==
    /\ Main = "fl_unlock"
    /\ \E c \in Colliders : Times(snapshot.mDeadColliders, c) = 2
    /\ snapshot.mActions # <<>>
    /\ \E t \in Workers : pc[t] = "lock"

\* C7: an actor whose RemoveActor was called after its AddActor returned is,
\* once a flush released it, not in the world, and CollectResults does not
\* report it to an owner.
C7_AddedThenRemoved ==
    \A a \in addedFirst \cap releasedActors : a \notin world /\ a \notin reported
\* A flush found the same actor among the new and the dead actors, the
\* removal having been called after the add.
C7_Witness ==
    /\ Main = "fl_unlock"
    /\ \E a \in addedFirst :
          /\ a \in Range(snapshot.mNewActors) /\ a \in Range(snapshot.mDeadActors)
          /\ a \in releasedActors /\ a \notin world

\* C8 (as claimed): when advance returned false, the world's actor set and
\* mLastDeltaTime are at Simulate's return what they were at its entry.
C8_SkippedStepChangesNothing ==
    (Main = "sim_return" /\ skipped) =>
        (world = entry.world /\ mLastDeltaTime = entry.dt)
\* C8 (amended): when Simulate comes back from an advance that returned
\* false, mLastDeltaTime is what it was at the entry, and the world's actor
\* set is the one at the entry with the queued new actors added and the
\* queued dead actors removed by the flush the call made: the flush's body
\* makes it so, and no step changes it from there to the return.
C8_SkippedStepOnlyFlushes ==
    [][/\ (Main = "fl_body" /\ inSimulate /\ Main' = "fl_unlock") =>
            world' = (entry.world \cup Range(snapshot.mNewActors))
                        \ Range(snapshot.mDeadActors)
       /\ (Main \in {"fl_unlock", "sim_advance", "sim_return"} /\ inSimulate) =>
            world' = world
       /\ (Main = "sim_advance" /\ skipped') => mLastDeltaTime' = entry.dt]_vars
\* A skipped Simulate, after an earlier step, that had a new actor to flush.
C8_Witness ==
    /\ Main = "sim_return" /\ skipped
    /\ entry.dt # 0 /\ world # entry.world /\ mNewActors = <<>>

\* C9 (as claimed): between the owning thread's calls, and when Simulate
\* returns, mIsDuringSimulation is true exactly when a dispatched step has
\* not been collected.
C9_FlagIffStepInFlight ==
    Main \in {"idle", "sim_return"} => (mIsDuringSimulation <=> stepInFlight)

\* C10 (as claimed): CollectResults goes past its early return, to wait and
\* to the transforms and events, only for a step that was dispatched.
C10_CollectsOnlyDispatched ==
    Main \in {"cr_transforms", "cr_end"} => waited = "step"

\* C11: when Simulate(dt) returns, the delta it passed to advance is
\* MaxDeltaTime when dt > MaxDeltaTime, 0 when dt < 0 and dt otherwise, and
\* when the step was dispatched mLastDeltaTime is that delta.
C11_ClampedDelta ==
    Main = "sim_return" =>
        /\ simDt = (IF entry.arg > MaxDeltaTime THEN MaxDeltaTime
                    ELSE IF entry.arg < 0 THEN 0 ELSE entry.arg)
        /\ ~skipped => mLastDeltaTime = simDt
\* Simulate called with a dt above the maximum dispatched a step, the step
\* before having been simulated with a smaller delta.
C11_Witness ==
    /\ Main = "sim_return" /\ entry.arg > MaxDeltaTime /\ ~skipped
    /\ mLastDeltaTime = MaxDeltaTime /\ entry.dt \in 1..(MaxDeltaTime - 1)

\* C12: a CollectResults that collects has, when it is about to clear
\* mIsDuringSimulation, made its phases in this order: wait, the vehicle
\* pipeline exactly when a vehicle is registered, the active transforms, the
\* collector's CollectResults, SendTriggerEvents, SendCollisionEvents and
\* SendJointEvents; the flag is still set then, and outside a collecting
\* call nothing is published.
C12_CollectOrder ==
    /\ Main = "cr_end" =>
        /\ collectLog = <<"wait">>
                \o (IF mWheelVehicles # <<>> THEN <<"vehicles">> ELSE <<>>)
                \o <<"transforms", "CollectResults", "SendTriggerEvents",
                     "SendCollisionEvents", "SendJointEvents">>
        /\ mIsDuringSimulation
    /\ Main \notin {"cr_end", "cr_transforms"} => collectLog = <<>>
    /\ ~mIsDuringSimulation => collectLog = <<>>
\* A dispatched step is collected with vehicles registered, one of them
\* inactive, and the events are out.
C12_Witness ==
    /\ Main = "cr_end" /\ waited = "step"
    /\ Len(collectLog) = 7 /\ collectLog[2] = "vehicles"
    /\ hierarchyActive # Range(mWheelVehicles)

\* C13 (as claimed): the events a CollectResults publishes are never those
\* of a step that an earlier CollectResults already published.
C13_NoStaleEvents == Main = "cr_end" => "old" \notin mEventsCallback

\* The frame's total wheel count of the active registered vehicles.
ActiveWheelTotal ==
    Sum([k \in 1..Len(mWheelVehicles) |->
            IF mWheelVehicles[k] \in hierarchyActive THEN NbWheels(mWheelVehicles[k]) ELSE 0])
\* C14 (as claimed): no step makes any of the three wheel buffers
\* smaller (sizes are Count()); after a frame with registered vehicles each
\* holds at least the frame's total wheel count of active vehicles; and the
\* batch query is created in exactly the frames whose wheel count exceeds
\* the largest count of the frames before.
C14_BuffersNeverShrink ==
    [][/\ mWheelQueryResults' >= mWheelQueryResults
       /\ mWheelHitResults' >= mWheelHitResults
       /\ mWheelVehiclesResultsPerWheel' >= mWheelVehiclesResultsPerWheel
       /\ (Main = "idle" /\ Main' = "cr_end" /\ mWheelVehicles # <<>>) =>
            /\ mWheelQueryResults' >= ActiveWheelTotal
            /\ mWheelHitResults' >= ActiveWheelTotal
            /\ mWheelVehiclesResultsPerWheel' >= ActiveWheelTotal
            /\ rebuilt' <=> (ActiveWheelTotal > highWater)]_vars
\* What holds of C14: mWheelQueryResults and mWheelHitResults never get
\* smaller and, after a frame with registered vehicles, are at least the
\* frame's total wheel count, while mWheelVehiclesResultsPerWheel is exactly
\* that count; the batch query is created in exactly the frames whose wheel
\* count exceeds the largest count of the frames before.
QueryBuffersNeverShrink ==
    [][/\ mWheelQueryResults' >= mWheelQueryResults
       /\ mWheelHitResults' >= mWheelHitResults
       /\ (Main = "idle" /\ Main' = "cr_end" /\ mWheelVehicles # <<>>) =>
            /\ mWheelQueryResults' >= ActiveWheelTotal
            /\ mWheelHitResults' >= ActiveWheelTotal
            /\ mWheelVehiclesResultsPerWheel' = ActiveWheelTotal
            /\ rebuilt' <=> (ActiveWheelTotal > highWater)
            /\ rebuilt' => mWheelRaycastBatchQuery' = ActiveWheelTotal]_vars
\* A frame with fewer wheels than an earlier one: the query buffers keep
\* their size and the query is not rebuilt, the per-wheel buffer is smaller.
FewerWheelsFrame ==
    /\ Main = "cr_end" /\ ~rebuilt
    /\ mWheelVehiclesResultsPerWheel > 0
    /\ mWheelVehiclesResultsPerWheel < mWheelQueryResults
    /\ mWheelQueryResults = highWater

\* C15: a CollectResults frame leaves the gear, the input fed to the
\* smoothing, the wheel State records and the wheel collider transforms of
\* every registered vehicle that is not active in its hierarchy as they
\* were, and does not pass the vehicle to the raycasts and the update.
C15_InactiveVehicleSkipped ==
    [][(Main = "idle" /\ Main' \in {"cr_end", "cr_transforms"}) =>
        \A v \in Range(mWheelVehicles) \ hierarchyActive :
            /\ gear'[v] = gear[v]
            /\ rawInput'[v] = rawInput[v]
            /\ wheelState'[v] = wheelState[v]
            /\ colliderPose'[v] = colliderPose[v]
            /\ v \notin Range(mWheelVehiclesCache')]_vars
\* A frame updated one vehicle while another, synchronized in an earlier
\* frame and since deactivated, kept a different state.
C15_Witness ==
    /\ Main = "cr_end"
    /\ \E v \in Range(mWheelVehicles) \ hierarchyActive, w \in hierarchyActive :
          /\ wheelState[v] # "none" /\ wheelState[w] # wheelState[v]
          /\ rawInput[w] # rawInput[v] /\ gear[w] # gear[v]
          /\ mWheelVehiclesCache = <<w>>

\* C16 (as claimed): with UseReverseAsBrake, a forward speed below -80 and a
\* positive throttle, the input fed to the smoothing is full brake and no
\* acceleration, whatever the gears.
C16_ReverseAsBrake ==
    (/\ fnResult.kind = "VehicleInput"
     /\ fnCall.controls.useReverseAsBrake
     /\ fnCall.controls.forwardSpeed < -InvalidDirectionThreshold
     /\ fnCall.controls.throttle > 0)
    => IF fnCall.controls.useAnalogSteering
       THEN fnResult.input.brake = 1 /\ fnResult.input.accel = 0
       ELSE fnResult.input.digitalBrake /\ ~fnResult.input.digitalAccel

\* C17 (as claimed): for two kinematic actors FilterShader returns eSUPPRESS
\* with eNOTIFY_TOUCH_FOUND and eNOTIFY_TOUCH_LOST set and eSOLVE_CONTACT
\* not set, whatever the other attributes.
C17_KinematicPairSuppressed ==
    (/\ fnResult.kind = "FilterShader"
     /\ fnCall.attributes0.kinematic /\ fnCall.attributes1.kinematic)
    => /\ fnResult.out.result = "eSUPPRESS"
       /\ {"eNOTIFY_TOUCH_FOUND", "eNOTIFY_TOUCH_LOST"} \subseteq fnResult.out.flags
       /\ "eSOLVE_CONTACT" \notin fnResult.out.flags
\* C17 (amended): for two kinematic actors FilterShader sets
\* eNOTIFY_TOUCH_FOUND and eNOTIFY_TOUCH_LOST and not eSOLVE_CONTACT; it
\* returns eSUPPRESS when neither shape is a trigger and eDEFAULT when one is.
C17_KinematicPairNotSolved ==
    (/\ fnResult.kind = "FilterShader"
     /\ fnCall.attributes0.kinematic /\ fnCall.attributes1.kinematic)
    => /\ fnResult.out.result =
            (IF fnCall.attributes0.trigger \/ fnCall.attributes1.trigger
             THEN "eDEFAULT" ELSE "eSUPPRESS")
       /\ {"eNOTIFY_TOUCH_FOUND", "eNOTIFY_TOUCH_LOST"} \subseteq fnResult.out.flags
       /\ "eSOLVE_CONTACT" \notin fnResult.out.flags
       /\ fnResult.out.flags \ fnCall.pairFlags =
            (IF fnCall.attributes0.trigger \/ fnCall.attributes1.trigger
             THEN {"eNOTIFY_TOUCH_FOUND", "eNOTIFY_TOUCH_LOST",
                   "eDETECT_DISCRETE_CONTACT"}
             ELSE {"eNOTIFY_TOUCH_FOUND", "eNOTIFY_TOUCH_PERSISTS",
                   "eNOTIFY_TOUCH_LOST", "eDETECT_DISCRETE_CONTACT"})
\* Two kinematic actors, no trigger, whose masks match both ways.
C17_Witness ==
    /\ fnResult.kind = "FilterShader" /\ fnResult.out.result = "eSUPPRESS"
    /\ fnCall.attributes0.kinematic /\ fnCall.attributes1.kinematic
    /\ BitAnd(fnCall.filterData0.word0, fnCall.filterData1.word1) # 0
    /\ BitAnd(fnCall.filterData1.word0, fnCall.filterData0.word1) # 0
    /\ fnCall.pairFlags # {}

\* C19 (as claimed): the worker-pool size is clamp(coreCount - 1, 1, 4) in
\* ordinary integer arithmetic.
C19_PoolSize ==
    fnResult.kind = "ThreadsCount" =>
        fnResult.n = (IF fnCall.ProcessorCoreCount - 1 < 1 THEN 1
                      ELSE IF fnCall.ProcessorCoreCount - 1 > 4 THEN 4
                      ELSE fnCall.ProcessorCoreCount - 1)

\* C18 (as claimed): with no live world the getters return the engine-default
\* settings values and the setters have no effect.
C18_DefaultsWithoutWorld ==
    ~mScene =>
        /\ got.kind = "GetGravity" => got.value = DefaultGravity
        /\ got.kind = "GetEnableCCD" => got.value = ~DisableCCD
        /\ got.kind = "GetBounceThresholdVelocity" => got.value = BounceThresholdVelocity
        /\ sceneGravity = DefaultGravity /\ sceneCCD = ~DisableCCD
        /\ sceneBounce = BounceThresholdVelocity

\* C20: the body of a FlushRequests that finds all seven queues empty makes
\* no backend or Event Collector call and leaves the world, the objects and
\* the queues as they are; so does a flush that follows another one with no
\* mutation operation in between.
C20_EmptyFlushChangesNothing ==
    [][(Main = "fl_body" /\ Main' = "fl_unlock" /\ Queues = EmptyQueues)
        => /\ flushLog' = <<>>
           /\ UNCHANGED <<sceneVars, queueVars, mEventsCallback>>]_vars
\* A flush that found the queues empty has run its body in a scene where an
\* earlier flush had added an actor and put it to sleep.
C20_Witness ==
    /\ Main = "fl_unlock" /\ snapshot = EmptyQueues /\ Queues = EmptyQueues
    /\ flushLog = <<>>
    /\ asleep # {} /\ world # {}

\* C21 (as claimed): the k-th per-vehicle record describes the k-th active
\* vehicle: it holds that vehicle's wheel count, the slices of the records
\* follow one another inside mWheelVehiclesResultsPerWheel, and their
\* lengths sum to the wheel count of the input pass.
C21_RecordsDescribeActiveVehicles ==
    LET records == mWheelVehiclesResultsPerVehicle IN
    /\ Len(records) = Len(mWheelVehiclesCache)
    /\ \A k \in 1..Len(records) :
        /\ records[k].nbWheelQueryResults = NbWheels(mWheelVehiclesCache[k])
        /\ records[k].wheelQueryResults + records[k].nbWheelQueryResults
              <= mWheelVehiclesResultsPerWheel
        /\ k > 1 => records[k].wheelQueryResults =
              records[k - 1].wheelQueryResults + records[k - 1].nbWheelQueryResults
    /\ Sum([k \in 1..Len(records) |-> records[k].nbWheelQueryResults])
          = Sum([k \in 1..Len(records) |-> NbWheels(mWheelVehiclesCache[k])])

\* C22 (as claimed): in CollectResults every actor the backend reports as
\* active has an owning object, so ASSERT(actor) never fails, whatever
\* RemoveActor calls were made since the step was dispatched.
C22_OwnerAssertionNeverFails ==
    /\ ~assertFailed
    /\ Main = "cr_end" => reported \subseteq userData

\* The places of the calls name(actor) among the calls of the flush.
FlushCallsOf(name, actor) ==
    {i \in 1..Len(flushLog) : flushLog[i][1] = name /\ flushLog[i][2] = actor}
\* The actors that were in mNewActors and in mDeadActors when the flush took
\* the lock, RemoveActor having been called before AddActor returned.
RemovedThenAdded ==
    (Range(snapshot.mNewActors) \cap Range(snapshot.mDeadActors)) \ addedFirst

\* C23: an actor queued for removal and then for addition before the same
\* flush is first added, then removed and released by that flush: after the
\* body it is not in the world and has been released exactly once.
C23_RemoveThenAddNotReconciled ==
    Main = "fl_unlock" =>
        \A a \in RemovedThenAdded :
            /\ a \notin world /\ a \in releasedActors
            /\ Cardinality(FlushCallsOf("release", a)) = 1
            /\ \E i \in FlushCallsOf("addActor", a) :
                 \A j \in FlushCallsOf("removeActor", a) \cup FlushCallsOf("release", a) : i < j
            /\ \A j \in FlushCallsOf("removeActor", a) : flushLog[j][3]
\* A flush has run on an actor removed and then added by a worker.
C23_Witness ==
    /\ Main = "fl_unlock"
    /\ \E a \in RemovedThenAdded :
          a \notin world /\ a \in releasedActors /\ FlushCallsOf("addActor", a) # {}

\* The two words of a filter data as sets of bits: each side's word0 has a
\* bit in common with the other side's word1.
Bits(word) == {k \in 0..1 : (word \div (2 ^ k)) % 2 = 1}
MutualMatch ==
    /\ Bits(fnCall.filterData0.word0) \cap Bits(fnCall.filterData1.word1) # {}
    /\ Bits(fnCall.filterData1.word0) \cap Bits(fnCall.filterData0.word1) # {}
NoTrigger == ~fnCall.attributes0.trigger /\ ~fnCall.attributes1.trigger
BothKinematic == fnCall.attributes0.kinematic /\ fnCall.attributes1.kinematic

\* C24: FilterShader gives the same answer when its two sides are swapped;
\* it sets eSOLVE_CONTACT exactly when neither shape is a trigger, the
\* actors are not both kinematic and the masks match both ways; without a
\* trigger, a kinematic pair or a mutual match it returns eKILL and leaves
\* pairFlags as they were.
C24_FourWayDecision ==
    fnResult.kind = "FilterShader" =>
        /\ fnResult.out = FilterShader(fnCall.attributes1, fnCall.filterData1,
                                       fnCall.attributes0, fnCall.filterData0,
                                       fnCall.pairFlags)
        /\ fnResult.out.result \in {"eDEFAULT", "eSUPPRESS", "eKILL"}
        /\ "eSOLVE_CONTACT" \in fnResult.out.flags
              <=> (NoTrigger /\ ~BothKinematic /\ MutualMatch)
        /\ (NoTrigger /\ ~BothKinematic /\ ~MutualMatch)
              => fnResult.out = [flags |-> fnCall.pairFlags, result |-> "eKILL"]
\* The filter has killed a pair of non-trigger, not both kinematic actors
\* whose masks match one way only, leaving the flags it was given.
C24_Witness ==
    /\ fnResult.kind = "FilterShader" /\ NoTrigger /\ ~BothKinematic
    /\ fnCall.attributes0.kinematic
    /\ Bits(fnCall.filterData0.word0) \cap Bits(fnCall.filterData1.word1) # {}
    /\ fnCall.pairFlags # {}
    /\ fnResult.out = [flags |-> fnCall.pairFlags, result |-> "eKILL"]
====
